---- MODULE Spec2Model ----
(***************************************************************************)
(* verify-commits.py: the backward walk of main() over the first-parent    *)
(* history of a starting commit, with the signature gate, the Tree-SHA512  *)
(* check, the octopus check and the merge re-creation in the workspace.    *)
(*                                                                         *)
(* Commits are the numbers 1..MaxCommit; a commit's first parent is an     *)
(* older (smaller) commit, which is what makes the history acyclic.  What  *)
(* the repository and the data files answer about a commit (its signature, *)
(* its Tree-SHA512 line, its parents, its time, the lists it is in) is     *)
(* chosen when main() asks for it.  A session is one run of main(), or two *)
(* runs one after the other on the same history, policy and arguments, or  *)
(* two runs given the same commit by name and by id.  tree_sha512sum is    *)
(* modelled by itself, on the lines git ls-tree answers for two trees.     *)
(***************************************************************************)
EXTENDS Integers, Sequences, FiniteSets, TLC

\* ---------------------------------------------------------------- bounds
MaxCommit == 4
\* the most lines git ls-tree -r answers for a tree
MaxEntries == 2

\* ------------------------------------------------------------- constants
\* args.commit when it is the symbolic 'HEAD' (the default) and not an id
HEAD == 0
\* prev_commit = "" before the first step
NoCommit == -1
\* "now" of time.time(), in days; commit times are Now or one day older
Now == 2

Commits == 1..MaxCommit
\* commits of merged side branches: never the start, never a first parent
SideCommits == {MaxCommit + 1, MaxCommit + 2}
Designations == Commits \cup {HEAD}
\* float('inf') of --clean-merge: larger than every time there is
Inf == Now + 1
Windows == {1, Inf}
Times == {Now - 1, Now}
Kinds == {"strong", "legacy", "revsig", "none"}
Runs == {1, 2}

VARIABLES
  args,                 \* [commit, verify_tree, clean_merge]: parsed arguments
  verified_root,        \* first line of trusted-git-root
  verified_sha512_root, \* first line of trusted-sha512-root-commit
  runs,                 \* the runs of the session: {1} or {1, 2}
  turn,                 \* the run that steps now
  pc,                   \* per run: position in main()
  current_commit,       \* per run: the cursor, a designation
  prev_commit,          \* per run
  verify_tree,          \* per run
  no_sha1,              \* per run
  environ,              \* per run: the REVAULT_VERIFY_COMMITS_ALLOW_* variables
  parents,              \* per run: parents of current_commit, as read
  current_tree,         \* per run: "recorded" once line 212 has read it
  branch,               \* per run: commit hash of initial_commit
  ws,                   \* per run: the workspace [kind, head]
  ws0,                  \* the workspace before the session
  outcome,              \* per run: "running", "Accept", "Reject", "Crash"
  reason,               \* per run: why it was rejected or crashed
  named,                \* per run: the designation the diagnostic names
  reported,             \* per run: "All Tree-SHA512s matched" was printed
  visited,              \* per run: the commits that were the cursor, in order
  validated,            \* per run: commits the signature gate judged valid
  hashed,               \* per run: commits whose Tree-SHA512 was checked
  unhashed,             \* per run: commits in no list that went unchecked
  shown,                \* per run: commits the diagnostic of line 189 reads
  remerged,             \* per run: commits whose merge was re-created
  faulted,              \* per run: a repository operation raised
  handover,             \* the workspace the first run leaves to the second
  seen,                 \* what the repository last answered about run 1's cursor
  lines,                \* per tree: the lines git ls-tree -r answers, in order
  overall,              \* per tree: what was fed to the overall accumulator
  digest,               \* per tree: what tree_sha512sum returned, <<>> before
  hpc                   \* per tree: position in tree_sha512sum

vars == <<args, verified_root, verified_sha512_root, runs, turn, pc,
          current_commit, prev_commit, verify_tree, no_sha1, environ, parents,
          current_tree, branch, ws, ws0, outcome, reason, named, reported,
          visited, validated, hashed, unhashed, shown, remerged, faulted,
          handover, seen, lines, overall, digest, hpc>>

\* The state of the walk of main(), and the state of tree_sha512sum
walk == <<args, verified_root, verified_sha512_root, runs, turn, pc,
          current_commit, prev_commit, verify_tree, no_sha1, environ, parents,
          current_tree, branch, ws, ws0, outcome, reason, named, reported,
          visited, validated, hashed, unhashed, shown, remerged, faulted,
          handover, seen>>
hasher == <<lines, overall, digest, hpc>>

\* ------------------------------------------------------------ repository
\* git resolves a designation to a commit: 'HEAD' is the workspace's commit
Resolve(d, w) == IF d = HEAD THEN w.head ELSE d

\* git show -s --format=%H initial_commit
git_show_commit_hash(d, w) == Resolve(d, w)

\* git checkout --force --quiet <commit hash>: a detached workspace
git_checkout(b) == [kind |-> "detached", head |-> b]

\* git merge --no-ff on the detached parents[0]: HEAD is the re-created merge
git_merge(w) == [kind |-> "merging", head |-> w.head]

\* The parent lists a commit c can have: none, or an older commit as first
\* parent and up to two merged side-branch commits after it
ParentLists(c) ==
  LET Older == 1..(c - 1) IN
    {<<>>} \cup {<<a>> : a \in Older}
      \cup {<<a, MaxCommit + 1>> : a \in Older}
      \cup {<<a, MaxCommit + 1, MaxCommit + 2>> : a \in Older}

\* An octopus merge: a commit with more than two parents
Octopus(ps) == Len(ps) >= 3

\* line 203 with the bound one too high
IsOctopus_Mut(ps) == Len(ps) > 3

\* line 203
IsOctopus(ps) == Len(ps) > 2

\* gpg.sh: a strong signature by a trusted key always verifies, a SHA-1
\* signature only with ALLOW_SHA1, a revoked-key signature only with
\* ALLOW_REVSIG
git_verify_commit(kind, env) ==
  \/ kind = "strong"
  \/ kind = "legacy" /\ env.ALLOW_SHA1 = "1"
  \/ kind = "revsig" /\ env.ALLOW_REVSIG = "1"

\* The data files list commit ids, and main() looks the cursor up as it is
\* written: a symbolic cursor is in no list
InList(d, listed) == d # HEAD /\ listed

\* What is known about a commit before the repository is asked
Blank(c) ==
  [commit |-> c, known |-> {}, kind |-> "none", revsig |-> FALSE,
   incorrect |-> FALSE, digest_ok |-> FALSE, octopus |-> FALSE,
   parents |-> <<>>,
   time |-> Now, unclean |-> FALSE, recreated |-> "same"]

\* The answers the repository can give about attribute a of commit c: any of
\* D, and the same again while it is remembered
Answers(c, a, D) ==
  IF seen.commit = c /\ a \in seen.known THEN {seen[a]} ELSE D

Learn(s, a, v) == [s EXCEPT ![a] = v, !.known = @ \cup {a}]

\* A step of main() forgets the answers of the step before it; whether the
\* cursor is an octopus is remembered from one end of the iteration to the
\* other
Fresh(c) ==
  IF seen.commit = c /\ "octopus" \in seen.known
    THEN Learn(Blank(c), "octopus", seen.octopus)
    ELSE Blank(c)

\* The answers to run 1 are the ones remembered: run 2 follows it step by
\* step and is answered the same
Record(r, s) == IF r = 1 THEN s ELSE seen

\* ------------------------------------------------------------- scheduling
Other(r) == 3 - r

\* The second run is at the step the first run is about to take
InStep ==
  /\ 2 \in runs
  /\ pc[2] = pc[1]
  /\ Resolve(current_commit[2], ws[2]) = Resolve(current_commit[1], ws[1])

\* The second run takes each step right after the first, while the answers
\* to the first are remembered; when it is no longer in step it waits for
\* the first run to end
NextTurn(r) ==
  IF r = 1 THEN (IF InStep \/ (2 \in runs /\ pc[2] # "done" /\ pc'[1] = "done")
                   THEN 2 ELSE 1)
  ELSE (IF pc[1] # "done" THEN 1 ELSE 2)

\* The run r may step: the second run goes on after the first has ended only
\* on the workspace the first one left
MayStep(r) ==
  /\ turn = r
  /\ (r = 2 /\ pc[1] = "done") => ws[1] = handover

Last(s) == s[Len(s)]
Range(s) == {s[i] : i \in 1..Len(s)}

\* --------------------------------------------------------- tree_sha512sum
\* Paths of a tree, as bytes: "a", "a/b", "b"
Names == {<<97>>, <<97, 47, 98>>, <<98>>}
\* Object ids: of a blob, or of the commit a submodule entry points to
ObjectIds == {1, 2}
\* The trees that are hashed side by side
Trees == {1, 2}

\* A line of git ls-tree --full-tree -r: metadata[1], metadata[2] and the name
Entries == [name : Names, kind : {"blob", "commit"}, id : ObjectIds]

\* The answers of git ls-tree -r: up to MaxEntries lines, no path twice
Listings ==
  {<<>>} \cup
  UNION {{l \in [1..n -> Entries] :
            \A i, j \in 1..n : l[i].name = l[j].name => i = j} :
         n \in 1..MaxEntries}

\* git ls-tree -r in the submodule at name, of the commit the entry points
\* to: one file, whose blob is the one of that commit
ls_tree(commit) == <<[name |-> <<97>>, kind |-> "blob", id |-> commit]>>

\* What is fed to a hash accumulator: text, the data of a blob, or a digest in
\* hexadecimal or in raw bytes; SHA-512 is taken to be free of collisions, a
\* digest being told by what was fed
Bytes(b) == [t |-> "bytes", n |-> 0, text |-> b, of |-> <<>>]
BlobData(blob) == [t |-> "blob", n |-> blob, text |-> <<>>, of |-> <<>>]
hexdigest(fed) == [t |-> "hex", n |-> 0, text |-> <<>>, of |-> fed]
fromhex(dig) == [dig EXCEPT !.t = "raw"]

\* bytes compare as Python compares them: byte by byte, a prefix first
BytesLess(a, b) ==
  \E k \in 1..(Len(b)) :
    /\ \A i \in 1..(k - 1) : i <= Len(a) /\ a[i] = b[i]
    /\ k > Len(a) \/ (k <= Len(a) /\ a[k] < b[k])

\* files.sort(), line 82, of a list without duplicates
RECURSIVE sort(_)
sort(files) ==
  IF files = <<>> THEN <<>>
  ELSE LET least == CHOOSE i \in 1..Len(files) :
                      \A j \in 1..Len(files) :
                        j # i => BytesLess(files[i], files[j])
           rest == [k \in 1..(Len(files) - 1) |->
                      IF k < least THEN files[k] ELSE files[k + 1]]
       IN <<files[least]>> \o sort(rest)

\* lines 59-80: files and blob_by_name after the loop over the lines
Files(ls) ==
  LET blobs == {i \in 1..Len(ls) : ls[i].kind = "blob"}
      RECURSIVE collect(_)
      collect(i) ==
        IF i > Len(ls) THEN <<>>
        ELSE (IF i \in blobs THEN <<ls[i].name>> ELSE <<>>) \o collect(i + 1)
  IN collect(1)

blob_by_name(ls, f) == (CHOOSE e \in Range(ls) : e.name = f).id

\* lines 86-104: the digest of the data of a blob
BlobDigest(blob) == hexdigest(<<BlobData(blob)>>)

\* lines 106-109: the four updates for one file
FileRecord(dig, f) == <<dig, Bytes(<<32, 32>>), Bytes(f), Bytes(<<10>>)>>

RECURSIVE tree_sha512sum(_)
RECURSIVE Submodules(_, _)

\* lines 63-80: what the loop over the lines ls[i..] feeds to overall, the
\* digest of each submodule as it is met
Submodules(ls, i) ==
  IF i > Len(ls) THEN <<>>
  ELSE (IF ls[i].kind = "commit"
          THEN <<fromhex(tree_sha512sum(ls_tree(ls[i].id)))>>
          ELSE <<>>) \o Submodules(ls, i + 1)

\* lines 84-110: what the loop over the sorted files feeds to overall
RECURSIVE Blobs(_, _)
Blobs(ls, files) ==
  IF files = <<>> THEN <<>>
  ELSE FileRecord(BlobDigest(blob_by_name(ls, files[1])), files[1])
         \o Blobs(ls, Tail(files))

\* lines 57-114
tree_sha512sum(ls) ==
  hexdigest(Submodules(ls, 1) \o Blobs(ls, sort(Files(ls))))

\* tree_sha512sum is not running
HasherIdle ==
  /\ lines = [i \in Trees |-> <<>>]
  /\ overall = [i \in Trees |-> <<>>]
  /\ digest = [i \in Trees |-> <<>>]
  /\ hpc = [i \in Trees |-> "idle"]

\* ------------------------------------------------------------------ Init
\* The workspaces a first run can hand over to a second: the one it found,
\* or a detached one
Handovers(w) == {w} \cup {git_checkout(c) : c \in Commits}

\* lines 157-165 of each run of the session rs, the run r being given the
\* commit argument start[r], on a workspace that has the newest commit
\* checked out
InitFrom(rs, start) ==
  /\ args \in [commit : Designations, verify_tree : BOOLEAN,
               clean_merge : Windows]
  /\ verified_root \in Commits
  /\ verified_sha512_root \in Commits
  /\ ws0 \in [kind : {"branch", "detached"}, head : {MaxCommit}]
  /\ runs = rs
  /\ turn = 1
  /\ handover \in (IF 2 \in rs THEN Handovers(ws0) ELSE {ws0})
  /\ ws = [r \in Runs |-> IF r = 1 THEN ws0 ELSE handover]
  /\ pc = [r \in Runs |-> IF r \in rs THEN "loop" ELSE "done"]
  /\ current_commit = [r \in Runs |-> start[r]]
  /\ prev_commit = [r \in Runs |-> NoCommit]
  /\ verify_tree = [r \in Runs |-> args.verify_tree]
  /\ no_sha1 = [r \in Runs |-> TRUE]
  /\ environ = [r \in Runs |-> [ALLOW_SHA1 |-> "", ALLOW_REVSIG |-> ""]]
  /\ parents = [r \in Runs |-> <<>>]
  /\ current_tree = [r \in Runs |-> ""]
  /\ branch = [r \in Runs |-> git_show_commit_hash(start[r], ws[r])]
  /\ outcome = [r \in Runs |-> "running"]
  /\ reason = [r \in Runs |-> ""]
  /\ named = [r \in Runs |-> NoCommit]
  /\ reported = [r \in Runs |-> FALSE]
  /\ visited = [r \in Runs |-> <<Resolve(start[r], ws[r])>>]
  /\ validated = [r \in Runs |-> {}]
  /\ hashed = [r \in Runs |-> {}]
  /\ unhashed = [r \in Runs |-> {}]
  /\ shown = [r \in Runs |-> {}]
  /\ remerged = [r \in Runs |-> {}]
  /\ faulted = [r \in Runs |-> FALSE]
  /\ seen = Blank(Resolve(start[1], ws0))
  /\ HasherIdle

\* Every run of the session is given args.commit
InitWith(rs) == InitFrom(rs, [r \in Runs |-> args.commit])

\* One run of main()
Init == InitWith({1})

\* --------------------------------------------------------------- actions
\* sys.exit(status) or an uncaught exception: the run is over
Exit(r, out, why, who) ==
  /\ outcome' = [outcome EXCEPT ![r] = out]
  /\ reason' = [reason EXCEPT ![r] = why]
  /\ named' = [named EXCEPT ![r] = who]
  /\ pc' = [pc EXCEPT ![r] = "done"]
  /\ turn' = NextTurn(r)

Goto(r, l) ==
  /\ pc' = [pc EXCEPT ![r] = l]
  /\ turn' = NextTurn(r)
  /\ UNCHANGED <<outcome, reason, named>>

\* line 169 taking either root for the end of the walk
AtRoot_Mut(r) == current_commit[r] \in {verified_root, verified_sha512_root}

\* line 169
AtRoot(r) == current_commit[r] = verified_root

\* line 172 one step late
AtSha512Root_Mut(r) == prev_commit[r] = verified_sha512_root

\* line 172
AtSha512Root(r) == current_commit[r] = verified_sha512_root

\* lines 168-176: the two roots.  Whether the cursor is an octopus is a fact
\* of the history from here on, whenever main() comes to read its parents
LoopHead(r) ==
  /\ pc[r] = "loop" /\ MayStep(r)
  /\ LET c == Resolve(current_commit[r], ws[r]) IN
     IF AtRoot(r)
       THEN /\ Exit(r, "Accept", "", current_commit[r])
            /\ seen' = Record(r, Blank(c))
            /\ UNCHANGED <<verify_tree, no_sha1, reported>>
       ELSE /\ Goto(r, "verify")
            /\ \E oct \in {Octopus(ps) : ps \in ParentLists(c)} :
                 seen' = Record(r, Learn(Blank(c), "octopus", oct))
            /\ IF AtSha512Root(r)
                 THEN /\ reported' = [reported EXCEPT ![r] = verify_tree[r]]
                      /\ verify_tree' = [verify_tree EXCEPT ![r] = FALSE]
                      /\ no_sha1' = [no_sha1 EXCEPT ![r] = FALSE]
                 ELSE UNCHANGED <<verify_tree, no_sha1, reported>>
  /\ UNCHANGED <<args, verified_root, verified_sha512_root, runs,
                 current_commit, prev_commit, environ, parents, current_tree,
                 branch, ws, ws0, visited, validated, hashed, remerged,
                 faulted, handover>>
  /\ UNCHANGED <<unhashed, shown>>
  /\ UNCHANGED hasher

\* lines 178-179: the policy of the signature gate for the cursor
GateEnv(r, listed) ==
  [ALLOW_SHA1 |-> IF no_sha1[r] THEN "0" ELSE "1",
   ALLOW_REVSIG |-> IF InList(current_commit[r], listed) THEN "1" ELSE "0"]

\* lines 184-191: the commit the diagnostic names
SigCulprit(r) ==
  IF prev_commit[r] # NoCommit THEN prev_commit[r] ELSE current_commit[r]

\* lines 178-192: the signature gate
\* lines 187-189: the parents of prev_commit, each given to git show
ParentsShown(r) ==
  IF prev_commit[r] # NoCommit THEN Range(parents[r]) ELSE {}

VerifyCommit(r) ==
  /\ pc[r] = "verify" /\ MayStep(r)
  /\ LET c == Resolve(current_commit[r], ws[r]) IN
     \E kind \in Answers(c, "kind", Kinds),
        listed \in Answers(c, "revsig", BOOLEAN) :
       LET env == GateEnv(r, listed) IN
         /\ environ' = [environ EXCEPT ![r] = env]
         /\ seen' = Record(r, Learn(Learn(Fresh(c), "kind", kind),
                                    "revsig", listed))
         /\ IF git_verify_commit(kind, env)
              THEN /\ Goto(r, "tree")
                   /\ validated' = [validated EXCEPT ![r] = @ \cup {c}]
                   /\ UNCHANGED shown
              ELSE /\ Exit(r, "Reject", "SignatureInvalid", SigCulprit(r))
                   /\ shown' = [shown EXCEPT ![r] = ParentsShown(r)]
                   /\ UNCHANGED validated
  /\ UNCHANGED <<args, verified_root, verified_sha512_root, runs,
                 current_commit, prev_commit, verify_tree, no_sha1, parents,
                 current_tree, branch, ws, ws0, reported, visited, hashed,
                 remerged, faulted, handover>>
  /\ UNCHANGED unhashed
  /\ UNCHANGED hasher

\* line 195 checking the starting commit alone
TreeChecked_Mut(r, listed) ==
  /\ verify_tree[r] /\ prev_commit[r] = NoCommit
  /\ ~InList(current_commit[r], listed)

\* line 195: whether the Tree-SHA512 of the cursor is checked
TreeChecked(r, listed) ==
  /\ verify_tree[r] \/ prev_commit[r] = NoCommit
  /\ ~InList(current_commit[r], listed)

\* lines 194-199: the Tree-SHA512 check
CheckTree(r) ==
  /\ pc[r] = "tree" /\ MayStep(r)
  /\ LET c == Resolve(current_commit[r], ws[r]) IN
     \E listed \in Answers(c, "incorrect", BOOLEAN) :
       IF TreeChecked(r, listed)
         THEN \E ok \in Answers(c, "digest_ok", BOOLEAN) :
                /\ seen' = Record(r, Learn(Learn(Fresh(c), "incorrect", listed),
                                           "digest_ok", ok))
                /\ hashed' = [hashed EXCEPT ![r] = @ \cup {c}]
                /\ UNCHANGED unhashed
                /\ IF ok
                     THEN Goto(r, "parents")
                     ELSE Exit(r, "Reject", "ContentHashMismatch",
                               current_commit[r])
         ELSE /\ seen' = Record(r, Learn(Fresh(c), "incorrect", listed))
              /\ UNCHANGED hashed
              /\ unhashed' = [unhashed EXCEPT ![r] =
                                IF listed THEN @ ELSE @ \cup {c}]
              /\ Goto(r, "parents")
  /\ UNCHANGED <<args, verified_root, verified_sha512_root, runs,
                 current_commit, prev_commit, verify_tree, no_sha1, environ,
                 parents, current_tree, branch, ws, ws0, reported, visited,
                 validated, remerged, faulted, handover>>
  /\ UNCHANGED shown
  /\ UNCHANGED hasher

\* git show -s --format=%P: the parents the history gives the commit c
ParentsOf(c) ==
  {ps \in ParentLists(c) : \E o \in Answers(c, "octopus", BOOLEAN) :
                             Octopus(ps) = o}

\* lines 201-205: the parents; splitlines()[0] of an empty answer raises
ReadParents(r) ==
  /\ pc[r] = "parents" /\ MayStep(r)
  /\ LET c == Resolve(current_commit[r], ws[r]) IN
     \E ps \in Answers(c, "parents", ParentsOf(c)) :
       /\ seen' = Record(r, Learn(Fresh(c), "parents", ps))
       /\ IF ps = <<>>
            THEN /\ Exit(r, "Crash", "IndexError", current_commit[r])
                 /\ UNCHANGED parents
            ELSE /\ parents' = [parents EXCEPT ![r] = ps]
                 /\ IF IsOctopus(ps)
                      THEN Exit(r, "Reject", "StructuralViolation",
                                current_commit[r])
                      ELSE Goto(r, "merge")
  /\ UNCHANGED <<args, verified_root, verified_sha512_root, runs,
                 current_commit, prev_commit, verify_tree, no_sha1, environ,
                 current_tree, branch, ws, ws0, reported, visited, validated,
                 hashed, remerged, faulted, handover>>
  /\ UNCHANGED <<unhashed, shown>>
  /\ UNCHANGED hasher

\* line 209
check_merge(commit_time) == commit_time > Now - args.clean_merge

\* line 211
MergeGuard(r, commit_time, allow_unclean) ==
  Len(parents[r]) = 2 /\ check_merge(commit_time) /\ ~allow_unclean

\* lines 207-214: the guard, then the checkout of parents[0] and the merge.
\* The time and the unclean list are read for every commit and decide nothing
\* unless it has two parents
Reconstruct(r) ==
  /\ pc[r] = "merge" /\ MayStep(r)
  /\ LET c == Resolve(current_commit[r], ws[r]) IN
     IF Len(parents[r]) = 2
       THEN \E t \in Answers(c, "time", Times),
               listed \in Answers(c, "unclean", BOOLEAN) :
              /\ seen' = Record(r, Learn(Learn(Fresh(c), "time", t),
                                         "unclean", listed))
              /\ IF MergeGuard(r, t, InList(current_commit[r], listed))
                   THEN /\ current_tree' = [current_tree EXCEPT ![r] = "recorded"]
                        /\ ws' = [ws EXCEPT ![r] =
                                    git_merge(git_checkout(parents[r][1]))]
                        /\ remerged' = [remerged EXCEPT ![r] = @ \cup {c}]
                        /\ Goto(r, "compare")
                   ELSE /\ UNCHANGED <<current_tree, ws, remerged>>
                        /\ Goto(r, "advance")
       ELSE /\ ~MergeGuard(r, Now, FALSE)
            /\ UNCHANGED <<current_tree, ws, remerged, seen>>
            /\ Goto(r, "advance")
  /\ UNCHANGED <<args, verified_root, verified_sha512_root, runs,
                 current_commit, prev_commit, verify_tree, no_sha1, environ,
                 parents, branch, ws0, reported, visited, validated, hashed,
                 faulted, handover>>
  /\ UNCHANGED <<unhashed, shown>>
  /\ UNCHANGED hasher

\* line 215: the tree of HEAD after the merge
RecreatedTree(r, answer) ==
  IF answer = "same" THEN current_tree[r] ELSE "recreated"

\* line 216
IsUnclean(r, recreated_tree) == current_tree[r] # recreated_tree

\* lines 219 and 221 checking out the first parent again
Restore_Mut(r) == git_checkout(parents[r][1])

\* lines 219 and 221: back to the commit the run started from
Restore(r) == git_checkout(branch[r])

\* lines 215-221: the tree of the re-created merge against the recorded one;
\* git show of line 215 is the one call between the two checkouts that raises
CompareTrees(r) ==
  /\ pc[r] = "compare" /\ MayStep(r)
  /\ LET c == Last(visited[r]) IN
     \E answer \in Answers(c, "recreated", {"same", "different", "raise"}) :
       /\ seen' = Record(r, Learn(Fresh(c), "recreated", answer))
       /\ IF answer = "raise"
            THEN /\ Exit(r, "Crash", "CalledProcessError", current_commit[r])
                 /\ faulted' = [faulted EXCEPT ![r] = TRUE]
                 /\ UNCHANGED ws
            ELSE /\ ws' = [ws EXCEPT ![r] = Restore(r)]
                 /\ UNCHANGED faulted
                 /\ IF IsUnclean(r, RecreatedTree(r, answer))
                      THEN Exit(r, "Reject", "UncleanMerge", current_commit[r])
                      ELSE Goto(r, "advance")
  /\ UNCHANGED <<args, verified_root, verified_sha512_root, runs,
                 current_commit, prev_commit, verify_tree, no_sha1, environ,
                 parents, current_tree, branch, ws0, reported, visited,
                 validated, hashed, remerged, handover>>
  /\ UNCHANGED <<unhashed, shown>>
  /\ UNCHANGED hasher

\* line 224 walking along the last parent
NextCommit_Mut(r) == parents[r][Len(parents[r])]

\* line 224
NextCommit(r) == parents[r][1]

\* lines 223-224: one step back along the first parent
Advance(r) ==
  /\ pc[r] = "advance" /\ MayStep(r)
  /\ prev_commit' = [prev_commit EXCEPT ![r] = current_commit[r]]
  /\ current_commit' = [current_commit EXCEPT ![r] = NextCommit(r)]
  /\ visited' = [visited EXCEPT ![r] = Append(@, NextCommit(r))]
  /\ pc' = [pc EXCEPT ![r] = "loop"]
  /\ turn' = NextTurn(r)
  /\ UNCHANGED <<args, verified_root, verified_sha512_root, runs, verify_tree,
                 no_sha1, environ, parents, current_tree, branch, ws, ws0,
                 outcome, reason, named, reported, validated, hashed, remerged,
                 faulted, handover, seen>>
  /\ UNCHANGED <<unhashed, shown>>
  /\ UNCHANGED hasher

Next ==
  \E r \in Runs :
    \/ LoopHead(r)
    \/ VerifyCommit(r)
    \/ CheckTree(r)
    \/ ReadParents(r)
    \/ Reconstruct(r)
    \/ CompareTrees(r)
    \/ Advance(r)

Spec == Init /\ [][Next]_vars

\* Two runs of main() one after the other: the second starts on a workspace
\* that a first run can hand over, and a session counts when that is the
\* workspace the first run did leave
InitTwice == InitWith(Runs)

SpecTwice == InitTwice /\ [][Next]_vars

\* The same commit designated in two ways: the first run is given 'HEAD', the
\* second the id of the commit that is checked out, which the first run
\* leaves checked out; the workspace is on a branch
InitAlias ==
  /\ InitFrom(Runs, [r \in Runs |-> IF r = 1 THEN HEAD ELSE ws0.head])
  /\ args.commit = HEAD
  /\ ws0.kind = "branch"
  /\ handover.head = ws0.head

SpecAlias == InitAlias /\ [][Next]_vars

\* ------------------------------------------------ tree_sha512sum, by itself
\* main() is not running
WalkIdle ==
  /\ args = [commit |-> HEAD, verify_tree |-> TRUE, clean_merge |-> Inf]
  /\ verified_root = 1
  /\ verified_sha512_root = 1
  /\ ws0 = [kind |-> "branch", head |-> MaxCommit]
  /\ runs = {}
  /\ turn = 1
  /\ handover = ws0
  /\ ws = [r \in Runs |-> ws0]
  /\ pc = [r \in Runs |-> "done"]
  /\ current_commit = [r \in Runs |-> args.commit]
  /\ prev_commit = [r \in Runs |-> NoCommit]
  /\ verify_tree = [r \in Runs |-> args.verify_tree]
  /\ no_sha1 = [r \in Runs |-> TRUE]
  /\ environ = [r \in Runs |-> [ALLOW_SHA1 |-> "", ALLOW_REVSIG |-> ""]]
  /\ parents = [r \in Runs |-> <<>>]
  /\ current_tree = [r \in Runs |-> ""]
  /\ branch = [r \in Runs |-> MaxCommit]
  /\ outcome = [r \in Runs |-> "running"]
  /\ reason = [r \in Runs |-> ""]
  /\ named = [r \in Runs |-> NoCommit]
  /\ reported = [r \in Runs |-> FALSE]
  /\ visited = [r \in Runs |-> <<MaxCommit>>]
  /\ validated = [r \in Runs |-> {}]
  /\ hashed = [r \in Runs |-> {}]
  /\ unhashed = [r \in Runs |-> {}]
  /\ shown = [r \in Runs |-> {}]
  /\ remerged = [r \in Runs |-> {}]
  /\ faulted = [r \in Runs |-> FALSE]
  /\ seen = Blank(MaxCommit)

\* tree_sha512sum is called on two trees, whatever git ls-tree answers for
\* each
InitHash ==
  /\ WalkIdle
  /\ lines \in [Trees -> Listings]
  /\ overall = [i \in Trees |-> <<>>]
  /\ digest = [i \in Trees |-> <<>>]
  /\ hpc = [i \in Trees |-> "list"]

\* lines 59-80: the loop over the lines of git ls-tree
ListTree(i) ==
  /\ hpc[i] = "list"
  /\ overall' = [overall EXCEPT ![i] = Submodules(lines[i], 1)]
  /\ hpc' = [hpc EXCEPT ![i] = "files"]
  /\ UNCHANGED <<lines, digest>>
  /\ UNCHANGED walk

\* lines 82-114: the loop over the sorted files, and the digest returned
HashFiles(i) ==
  /\ hpc[i] = "files"
  /\ overall' = [overall EXCEPT ![i] =
                   @ \o Blobs(lines[i], sort(Files(lines[i])))]
  /\ digest' = [digest EXCEPT ![i] = <<hexdigest(overall'[i])>>]
  /\ hpc' = [hpc EXCEPT ![i] = "done"]
  /\ UNCHANGED lines
  /\ UNCHANGED walk

NextHash == \E i \in Trees : ListTree(i) \/ HashFiles(i)

SpecHash == InitHash /\ [][NextHash]_vars

\* ------------------------------------------------------------ properties
\* The commit the cursor of the first run designates
Cursor == Last(visited[1])

\* The first run is over
Done == pc[1] = "done"

\* The signature gate has been invoked on the cursor of the first run
Gated ==
  \/ pc[1] \in {"tree", "parents", "merge", "compare", "advance"}
  \/ reason[1] \in {"SignatureInvalid", "ContentHashMismatch", "IndexError",
                    "StructuralViolation", "UncleanMerge", "CalledProcessError"}

\* C1: a run that ends in Accept ends with the cursor on the primary root, and
\* every commit that was the cursor before was judged valid by the signature
\* gate before the walk went past it; there is no other way to Accept, not
\* even on the secondary root.
C1_AcceptOnlyAtPrimaryRoot ==
  /\ outcome[1] = "Accept" =>
       /\ current_commit[1] = verified_root
       /\ Cursor = verified_root
  /\ \A i \in 1..(Len(visited[1]) - 1) : visited[1][i] \in validated[1]

C1_Witness ==
  /\ outcome[1] = "Accept"
  /\ Len(visited[1]) >= 3
  /\ verified_sha512_root \in Range(visited[1])
  /\ verified_sha512_root # verified_root

\* C2: at every invocation of the signature gate the legacy algorithm is
\* allowed exactly when the secondary root is or has been the cursor.
C2_LegacyExactlyFromSecondaryRoot ==
  Gated =>
    (environ[1].ALLOW_SHA1 = "1" <=> verified_sha512_root \in Range(visited[1]))

\* C3: a merge that is re-created and whose recorded tree differs from the
\* re-created one ends the run in Reject with UncleanMerge naming that commit,
\* with the workspace back on the reference it started on.
C3_UncleanMergeRejectedAndRestored ==
  ("recreated" \in seen.known /\ seen.recreated = "different") =>
    /\ outcome[1] = "Reject"
    /\ reason[1] = "UncleanMerge"
    /\ named[1] = current_commit[1]
    /\ ws[1] = ws0

\* C4: however a run ends, the workspace is on the reference it was on when
\* the run began.
C4_WorkspaceRestored == Done => ws[1] = ws0

\* The cursor is known to have more than two parents
OctopusCursor ==
  seen.commit = Cursor /\ "octopus" \in seen.known /\ seen.octopus

\* C5 (as claimed): a visited commit with more than two parents ends the run
\* in Reject with StructuralViolation, whatever its signature and its digest.
C5_OctopusAlwaysStructural ==
  (Done /\ OctopusCursor) =>
    (outcome[1] = "Reject" /\ reason[1] = "StructuralViolation")

\* C5 (amended): a visited commit with more than two parents never gets past
\* the parents check and ends the run in Reject, whatever its signature and
\* its digest: with SignatureInvalid when the gate judges it invalid, with
\* ContentHashMismatch when the gate passes it and its digest check fails,
\* and with StructuralViolation otherwise.
C5_OctopusRejected ==
  OctopusCursor =>
    /\ pc[1] \in {"verify", "tree", "parents", "done"}
    /\ Done =>
         /\ outcome[1] = "Reject"
         /\ reason[1] = "SignatureInvalid" <=> Cursor \notin validated[1]
         /\ reason[1] = "ContentHashMismatch" <=>
              /\ Cursor \in validated[1]
              /\ "digest_ok" \in seen.known /\ ~seen.digest_ok
         /\ reason[1] = "StructuralViolation" <=>
              /\ Cursor \in validated[1]
              /\ "parents" \in seen.known /\ Len(seen.parents) > 2

C5_Witness ==
  /\ Done /\ OctopusCursor
  /\ reason[1] = "StructuralViolation"
  /\ Cursor \in validated[1] /\ Cursor \in hashed[1]
  /\ Len(visited[1]) >= 2

\* C6: a cursor with no parents that is not the primary root ends the run in
\* an explicit Reject; the run does not crash.
C6_NoParentsRejected ==
  (seen.commit = Cursor /\ "parents" \in seen.known /\ seen.parents = <<>>) =>
    (Done /\ outcome[1] = "Reject")

\* C7: each step replaces the cursor by one of its parents, no commit is the
\* cursor twice, and a run in which no repository operation fails ends only
\* in Accept or in Reject.
C7_BackwardAndEndsInVerdict ==
  /\ \A i, j \in 1..Len(visited[1]) : visited[1][i] = visited[1][j] => i = j
  /\ (pc[1] = "loop" /\ Len(visited[1]) > 1) => Cursor \in Range(parents[1])
  /\ (Done /\ ~faulted[1]) => outcome[1] \in {"Accept", "Reject"}

\* C8: no ContentHashMismatch is raised for a commit of the incorrect-hash
\* exception list.
C8_ExemptNeverMismatch ==
  reason[1] = "ContentHashMismatch" => ~seen.incorrect

\* C9: the digest of the cursor is checked exactly when (verify_tree is on or
\* the cursor is the starting commit) and the cursor is not in the
\* incorrect-hash exception list.
C9_DigestCheckedExactlyWhen ==
  (pc[1] = "parents" \/ reason[1] = "ContentHashMismatch") =>
    (Cursor \in hashed[1] <=>
       /\ verify_tree[1] \/ Len(visited[1]) = 1
       /\ ~seen.incorrect)

\* The session counts: the second run started on the workspace the first run
\* left, and no repository operation failed
Session ==
  /\ pc[1] = "done" /\ pc[2] = "done"
  /\ ws[1] = handover
  /\ ~faulted[1] /\ ~faulted[2]

BothHashed == \A i \in Trees : hpc[i] = "done"

\* The content of a tree: its entries, whatever the order of the listing
TreeContent(i) == Range(lines[i])

\* C11: two listings of the same entries, in whatever order, get the same
\* digest, and two trees that differ in the name or the content of an entry
\* (blob or submodule) get different digests.
C11_DigestOfContentOnly ==
  BothHashed => (digest[1] = digest[2] <=> TreeContent(1) = TreeContent(2))

\* The name of the i-th line of a listing
NameOf(ls) == [i \in 1..Len(ls) |-> ls[i].name]

\* The digest an entry resolves to: of the blob, or of the submodule's tree
Resolved(e) ==
  IF e.kind = "blob" THEN BlobDigest(e.id) ELSE tree_sha512sum(ls_tree(e.id))

\* The reference feed: a record per entry, blobs and submodules alike, in the
\* order of the names
RECURSIVE Reference(_, _)
Reference(ls, names) ==
  IF names = <<>> THEN <<>>
  ELSE FileRecord(Resolved(CHOOSE e \in Range(ls) : e.name = names[1]),
                  names[1]) \o Reference(ls, Tail(names))

\* C12: what is fed to the overall accumulator is the reference feed: for
\* each entry in the order of the names, submodules among the blobs, the
\* record <hex-digest><two spaces><name><newline>.
C12_FeedIsSortedRecords ==
  \A i \in Trees :
    hpc[i] = "done" => overall[i] = Reference(lines[i], sort(NameOf(lines[i])))

\* The first run has decided whether to re-create the merge of its cursor,
\* and what it read for that is remembered
GuardDecided ==
  pc[1] \in {"compare", "advance"} /\ "recreated" \notin seen.known

\* The cursor is inside the window of --clean-merge
InWindow == "time" \in seen.known /\ seen.time > Now - args.clean_merge

\* The cursor is in allow-unclean-merge-commits
Exempt == "unclean" \in seen.known /\ seen.unclean

\* C13: the merge of the cursor is re-created before the walk advances
\* exactly when the cursor has two parents, its commit time is newer than now
\* minus the window, and it is not in the unclean-merge exception list.
C13_ReconstructedExactlyWhen ==
  GuardDecided =>
    (Cursor \in remerged[1] <=>
       Len(parents[1]) = 2 /\ InWindow /\ ~Exempt)

\* The places of the walk of the first run where the cursor was commit c
Places(c) == {k \in 1..Len(visited[1]) : visited[1][k] = c}

\* C14: when "All Tree-SHA512s matched" has been reported, verify_tree was on
\* until the secondary root became the cursor, and every commit that was the
\* cursor before it and is not in the incorrect-hash exception list had its
\* digest computed and found in its message.
C14_ReportMeansAllHashed ==
  reported[1] =>
    /\ args.verify_tree /\ ~verify_tree[1]
    /\ reason[1] = "ContentHashMismatch" => Cursor = verified_sha512_root
    /\ \E k \in Places(verified_sha512_root) :
         \A i \in 1..(k - 1) :
           /\ visited[1][i] \notin unhashed[1]
           /\ visited[1][i] \in validated[1]

C14_Witness ==
  /\ reported[1]
  /\ \E k \in Places(verified_sha512_root) :
       /\ k >= 3
       /\ \E i, j \in 1..(k - 1) :
            visited[1][i] \in hashed[1] /\ visited[1][j] \notin hashed[1]

\* The first run has just completed a step of the walk
Stepped == pc[1] = "loop" /\ Len(visited[1]) > 1

\* The designation of the cursor before the last completed step
OldCursor ==
  IF Len(visited[1]) = 2 THEN args.commit
  ELSE visited[1][Len(visited[1]) - 1]

\* The commits the first run gave to the signature gate, to tree_sha512sum or
\* to the walk as a cursor
Walked ==
  Range(visited[1]) \cup validated[1] \cup hashed[1] \cup unhashed[1]

\* After a completed step the cursor is the first parent of the old cursor
\* and prev_commit is the old cursor; a commit that is only a second parent
\* is never the cursor, never gated and never hashed
FirstParentWalk ==
  /\ Stepped => /\ current_commit[1] = parents[1][1]
                /\ prev_commit[1] = OldCursor
  /\ Walked \cap SideCommits = {}
  /\ \A c \in remerged[1] : c \in Range(visited[1])

\* C15 (as claimed): the walk is along the first parent, and a second parent
\* is given to no operation but the merge of the Merge Reconstructor.
C15_SecondParentOnlyMerged ==
  /\ FirstParentWalk
  /\ shown[1] \cap SideCommits = {}

\* C15 (amended): the walk is along the first parent, a second parent is
\* never the cursor, never gated and never hashed, and besides the merge it
\* is read only by the diagnostic of a failed signature check, which lists
\* the parents of the previous commit.
C15_FirstParentWalk ==
  /\ FirstParentWalk
  /\ shown[1] # {} =>
       /\ reason[1] = "SignatureInvalid"
       /\ shown[1] = Range(parents[1])
       /\ named[1] = prev_commit[1]
       /\ Cursor = parents[1][1]

C15_Witness ==
  /\ shown[1] \cap SideCommits # {}
  /\ Len(visited[1]) >= 3
  /\ \E c \in remerged[1] : c # visited[1][Len(visited[1]) - 1]

\* C16: the workspace is changed only by a merge check: while the re-created
\* merge is checked out the run is between lines 214 and 219 (or a git show
\* there has raised), it is changed only once a merge has been re-created,
\* and the first merge a run re-creates is of a two-parent commit inside the
\* window that is not in the unclean-merge exception list.
C16_MutationScopedToMergeCheck ==
  /\ ws[1].kind = "merging" => (pc[1] = "compare" \/ (Done /\ faulted[1]))
  /\ ws[1] # ws0 => remerged[1] # {}
  /\ (pc[1] = "compare" /\ remerged[1] = {Cursor}) =>
       (Len(parents[1]) = 2 /\ InWindow /\ ~Exempt)

\* A step of the first run leaves its two flags alone or turns them off, and
\* turns one off only at the head of the loop with the cursor equal to the
\* secondary root
FlagsStep ==
  /\ verify_tree'[1] => verify_tree[1]
  /\ no_sha1'[1] => no_sha1[1]
  /\ (verify_tree'[1] # verify_tree[1] \/ no_sha1'[1] # no_sha1[1]) =>
       /\ pc[1] = "loop"
       /\ current_commit[1] = verified_sha512_root
       /\ ~verify_tree'[1] /\ ~no_sha1'[1]

\* C17: verify_tree and no_sha1 go only from on to off, only when the cursor
\* is the secondary root, and no_sha1 off implies verify_tree off.
C17_FlagsMonotone ==
  /\ [](~no_sha1[1] => ~verify_tree[1])
  /\ [](no_sha1[1] => verify_tree[1] = args.verify_tree)
  /\ [][FlagsStep]_vars

C17_Witness ==
  /\ ~no_sha1[1] /\ ~verify_tree[1]
  /\ args.verify_tree
  /\ Len(visited[1]) >= 2
  /\ pc[1] = "advance"

\* C18: a run started from 'HEAD' and a run started from the id of the commit
\* that 'HEAD' designates, on the same history and policy, end with the same
\* result.
C18_SameOutcomeForSameCommit ==
  Session => outcome[1] = outcome[2]

====
